---- MODULE Spec2Model ----
(***************************************************************************)
(* Music library manager: catalog scan (music_catalog.py), duplicate       *)
(* resolver, reorganization planner and move executor (music_organizer.py).*)
(*                                                                         *)
(* Strings are sequences of one-character strings, so that the regular     *)
(* expression steps, the splitting and the path arithmetic of the source   *)
(* are computed character by character.  Python's None is the value None   *)
(* below, which is no character sequence.                                  *)
(***************************************************************************)
EXTENDS Integers, Sequences, FiniteSets, TLC

VARIABLES
    fs,         \* the music directory: path -> file, for the files that exist
    db,         \* the tracks table as the open connection sees it: id -> row
    committed,  \* the tracks table as last committed (what survives a crash)
    nextId,     \* the AUTOINCREMENT counter of tracks.id
    clock,      \* wall clock; also counts the operations started so far
    pc,         \* "idle", "exec" while execute_moves walks its plan, or
                \* "dedup" while remove_duplicates walks its list
    run,        \* the running execute_moves call: plan, position, counters
    dedup,      \* the running remove_duplicates call: list, position, counters
    lookup,     \* the MusicBrainz cache file and the latest lookup
    lastScan,   \* what the two latest scan_library calls saw and returned
    lastOp,     \* the operation that ended last: "none", "scan", "exec", "crash",
                \* "dedup", or "env" for a change made by the environment
    lost,       \* moves whose store update is applied but not committed
    faults,     \* shutil.move calls that have failed so far
    inp,        \* input of the pure string functions
    res         \* their results

vars == <<fs, db, committed, nextId, clock, pc, run, dedup, lookup, lastScan, lastOp, lost,
          faults, inp, res>>

(***************************************************************************)
(* Bounds of the model.                                                    *)
(***************************************************************************)
MaxFiles == 2       \* files in the initial music directory
MaxContent == 2     \* distinct byte contents a file can have
MaxMtime == 1       \* modification times 0..MaxMtime
MaxClock == 3       \* operations started in one behaviour
MaxMinTracks == 2   \* --min-tracks values 1..MaxMinTracks
MaxStrLen == 6      \* length of the inputs of the string functions
MaxFaults == 1      \* failures met in one behaviour: shutil.move, lost access
MaxBytes == 6       \* size of the files given to get_file_hash, in bytes

None == <<"<None>">>

(***************************************************************************)
(* Characters.                                                             *)
(***************************************************************************)
Ascii ==
    <<" ", "!", "\"", "#", "$", "%", "&", "'", "(", ")", "*", "+", ",", "-", ".", "/",
      "0", "1", "2", "3", "4", "5", "6", "7", "8", "9", ":", ";", "<", "=", ">", "?",
      "@", "A", "B", "C", "D", "E", "F", "G", "H", "I", "J", "K", "L", "M", "N", "O",
      "P", "Q", "R", "S", "T", "U", "V", "W", "X", "Y", "Z", "[", "\\", "]", "^", "_",
      "<grave>", "a", "b", "c", "d", "e", "f", "g", "h", "i", "j", "k", "l", "m", "n", "o",
      "p", "q", "r", "s", "t", "u", "v", "w", "x", "y", "z", "{", "|", "}", "~">>

AsciiIndex == [c \in {Ascii[i] : i \in 1..Len(Ascii)} |->
                  CHOOSE i \in 1..Len(Ascii) : Ascii[i] = c]

\* Code point order of the characters (tab and newline sort before space).
\* The grave accent, code 96, cannot be written in a string of this language;
\* its place in the table is held by a value that is no character.
Code(c) == IF c \in DOMAIN AsciiIndex THEN AsciiIndex[c] + 31 ELSE 9

IsUpperChar(c) == Code(c) >= 65 /\ Code(c) <= 90
IsLowerChar(c) == Code(c) >= 97 /\ Code(c) <= 122
IsDigitChar(c) == Code(c) >= 48 /\ Code(c) <= 57
IsSpace(c) == c \in {" ", "\t", "\n", "\r", "\f"}              \* regex \s
IsWord(c) == IsUpperChar(c) \/ IsLowerChar(c) \/ IsDigitChar(c) \/ c = "_"  \* regex \w

LowerChar(c) == IF IsUpperChar(c) THEN Ascii[AsciiIndex[c] + 32] ELSE c
UpperChar(c) == IF IsLowerChar(c) THEN Ascii[AsciiIndex[c] - 32] ELSE c

(***************************************************************************)
(* String primitives of the Python source.                                 *)
(***************************************************************************)
Lower(s) == [i \in 1..Len(s) |-> LowerChar(s[i])]                  \* str.lower

\* str.title: a cased character is upper-cased when it starts a run of cased
\* characters and lower-cased inside one.
Title(s) ==
    [i \in 1..Len(s) |->
        IF i > 1 /\ (IsUpperChar(s[i - 1]) \/ IsLowerChar(s[i - 1]))
        THEN LowerChar(s[i]) ELSE UpperChar(s[i])]

Filter(s, Keep(_)) == SelectSeq(s, Keep)

\* s without its longest prefix (suffix) of characters satisfying Drop
DropWhile(s, Drop(_)) ==
    LET keep == {i \in 1..Len(s) : ~Drop(s[i])}
    IN IF keep = {} THEN <<>>
       ELSE SubSeq(s, CHOOSE i \in keep : \A j \in keep : i <= j, Len(s))

DropWhileEnd(s, Drop(_)) ==
    LET keep == {i \in 1..Len(s) : ~Drop(s[i])}
    IN IF keep = {} THEN <<>>
       ELSE SubSeq(s, 1, CHOOSE i \in keep : \A j \in keep : i >= j)

\* str.strip() and str.strip(chars)
Strip(s) == DropWhileEnd(DropWhile(s, IsSpace), IsSpace)
StripChars(s, chars) ==
    LET In(c) == c \in chars IN DropWhileEnd(DropWhile(s, In), In)

\* re.sub(r'\s+', ' ', s): every maximal run of whitespace becomes one space
CollapseSpaces(s) ==
    LET Kept(i) == ~IsSpace(s[i]) \/ i = 1 \/ ~IsSpace(s[i - 1])
        keep == SelectSeq([i \in 1..Len(s) |-> i], Kept)
    IN [k \in 1..Len(keep) |-> IF IsSpace(s[keep[k]]) THEN " " ELSE s[keep[k]]]

\* re.sub(r'^the\s+', '', s): "the" and the whitespace after it, at the start
\* of the string only, and only when at least one whitespace follows
StripThePrefix(s) ==
    IF Len(s) >= 4 /\ SubSeq(s, 1, 3) = <<"t", "h", "e">> /\ IsSpace(s[4])
    THEN DropWhile(SubSeq(s, 4, Len(s)), IsSpace)
    ELSE s

\* re.sub(r'[^\w\s]', '', s)
StripSpecial(s) == LET Keep(c) == IsWord(c) \/ IsSpace(c) IN Filter(s, Keep)

\* s[:n]
Prefix(s, n) == SubSeq(s, 1, IF n < Len(s) THEN n ELSE Len(s))

\* first position where sub occurs in s, 0 when it does not (str.find + 1)
Find(s, sub) ==
    LET hits == {i \in 1..(Len(s) - Len(sub) + 1) : SubSeq(s, i, i + Len(sub) - 1) = sub}
    IN IF hits = {} THEN 0 ELSE CHOOSE i \in hits : \A j \in hits : i <= j

\* last position of character c in s, 0 when absent (str.rfind + 1)
RFind(s, c) ==
    LET hits == {i \in 1..Len(s) : s[i] = c}
    IN IF hits = {} THEN 0 ELSE CHOOSE i \in hits : \A j \in hits : i >= j

\* pathlib: PurePath.suffix and PurePath.stem of a file name
Suffix(name) ==
    LET i == RFind(name, ".")
    IN IF 1 < i /\ i < Len(name) THEN SubSeq(name, i, Len(name)) ELSE <<>>
Stem(name) ==
    LET i == RFind(name, ".")
    IN IF 1 < i /\ i < Len(name) THEN SubSeq(name, 1, i - 1) ELSE name

\* lexicographic order by code point (SQLite BINARY collation, Python str <)
RECURSIVE StrLess(_, _)
StrLess(a, b) ==
    IF b = <<>> THEN FALSE
    ELSE IF a = <<>> THEN TRUE
    ELSE IF Code(Head(a)) # Code(Head(b)) THEN Code(Head(a)) < Code(Head(b))
    ELSE StrLess(Tail(a), Tail(b))

\* falsy in Python: None or the empty string
Falsy(s) == s = None \/ s = <<>>

(***************************************************************************)
(* normalize_string (music_catalog.py) and normalize_artist                *)
(* (music_organizer.py).                                                   *)
(***************************************************************************)
normalize_string(s) ==
    IF Falsy(s) THEN <<>>
    ELSE Strip(CollapseSpaces(StripSpecial(StripThePrefix(Lower(s)))))

normalize_artist(artist) ==
    IF Falsy(artist) THEN <<>>
    ELSE Strip(CollapseSpaces(StripSpecial(StripThePrefix(Lower(artist)))))


(***************************************************************************)
(* Generic helpers.                                                        *)
(***************************************************************************)
\* the elements of the finite set S in the strict total order Less
SortSet(S, Less(_, _)) ==
    [i \in 1..Cardinality(S) |->
        CHOOSE x \in S : Cardinality({y \in S : Less(y, x)}) = i - 1]

RECURSIVE Concat(_)
Concat(ss) == IF ss = <<>> THEN <<>> ELSE Head(ss) \o Concat(Tail(ss))

\* NULL (None) sorts before every string, as in SQLite
SqlLess(a, b) ==
    IF a = None THEN b # None ELSE IF b = None THEN FALSE ELSE StrLess(a, b)

(***************************************************************************)
(* The music directory.  A path is <<folder, file name>> under MUSIC_DIR;  *)
(* a file has its byte content (an identity of the byte stream), its       *)
(* modification time and its tags.  Its access is "ok", or "unreadable"    *)
(* (os.stat works, open() raises), or "dangling" (a symbolic link whose    *)
(* target is gone: listed by os.walk, os.stat raises).                     *)
(***************************************************************************)
AUDIO_EXTENSIONS ==
    {<<".", "m", "p", "3">>, <<".", "m", "4", "a">>, <<".", "w", "a", "v">>,
     <<".", "f", "l", "a", "c">>, <<".", "o", "g", "g">>, <<".", "w", "m", "a">>,
     <<".", "a", "a", "c">>}

SepDash == <<" ", "-", " ">>
Unknown == <<"U", "n", "k", "n", "o", "w", "n">>

NoTags == [artist |-> None, album |-> None, title |-> None]

\* the libraries the behaviours start from
InitFolders == {<<"A", " ", "-", " ", "X">>, <<"A", " ", "-", " ">>, <<"A">>}
InitNames == {<<"T", ".", "m", "p", "3">>, <<"U", ".", "m", "p", "3">>}
InitTags == {NoTags, [artist |-> <<"a">>, album |-> None, title |-> <<"T">>]}
InitPaths == InitFolders \X InitNames
InitFiles(mtimes) ==
    [content : 1..MaxContent, mtime : mtimes, tags : InitTags, access : {"ok"}]

\* Path.exists follows symbolic links
Exists(f, p) == p \in DOMAIN f /\ f[p].access # "dangling"

\* shutil.move(src, dst) with dst absent: a rename, the file keeps its
\* content, tags and modification time
MoveFile(f, src, dst) ==
    [p \in (DOMAIN f \ {src}) \cup {dst} |-> IF p = dst THEN f[src] ELSE f[p]]

PathLess(p, q) == StrLess(p[1], q[1]) \/ (p[1] = q[1] /\ StrLess(p[2], q[2]))

(***************************************************************************)
(* music_catalog.py                                                        *)
(***************************************************************************)
\* split(' - ', 1) of a string that contains ' - '
SplitDash(s) ==
    LET i == Find(s, SepDash)
    IN <<SubSeq(s, 1, i - 1), SubSeq(s, i + 3, Len(s))>>

parse_folder_name(folder_name) ==
    IF Find(folder_name, SepDash) # 0
    THEN <<Strip(SplitDash(folder_name)[1]), Strip(SplitDash(folder_name)[2])>>
    ELSE <<Strip(folder_name), Unknown>>

parse_file_name(file_name) ==
    LET name == Stem(file_name)
    IN IF Find(name, SepDash) # 0
       THEN <<Strip(SplitDash(name)[1]), Strip(SplitDash(name)[2])>>
       ELSE <<Unknown, Strip(name)>>

\* The digest of a file is a function of its bytes alone; NoHash is the None
\* that get_file_hash returns when it cannot read the file.
NoHash == <<>>
get_file_hash(file) == IF file.access = "ok" THEN <<file.content>> ELSE NoHash

\* the tags mutagen reads; every field is None or a stripped non-empty string.
\* An exception of mutagen is swallowed (lines 263-265): every field None.
extract_metadata(file) == IF file.access = "ok" THEN file.tags ELSE NoTags

\* Python's `a or b`
Or(a, b) == IF Falsy(a) THEN b ELSE a

\* os.walk: the audio files outside hidden directories
IsAudio(file_name) == Lower(Suffix(file_name)) \in AUDIO_EXTENSIONS
IsHiddenDir(folder) == folder # <<>> /\ folder[1] = "."
FoundFiles(f) == {p \in DOMAIN f : IsAudio(p[2]) /\ ~IsHiddenDir(p[1])}

\* the values scan_library computes for one file (lines 309-332)
ScanRow(f, p, now) ==
    LET parsedF == parse_folder_name(p[1])
        parsedN == parse_file_name(p[2])
        metadata == extract_metadata(f[p])
        artist == Or(metadata.artist, parsedF[1])
        album == Or(metadata.album, parsedF[2])
        title == Or(metadata.title, parsedN[2])
    IN [file_path |-> p, file_name |-> p[2], file_hash |-> get_file_hash(f[p]),
        artist |-> artist, album |-> album, title |-> title,
        artist_normalized |-> normalize_string(artist),
        title_normalized |-> normalize_string(title),
        last_scanned |-> now]

Paths(d) == {d[id].file_path : id \in DOMAIN d}
IdOfPath(d, p) == CHOOSE id \in DOMAIN d : d[id].file_path = p

NeedsProcessing_Strict(d, f, p, force_rescan) ==
    \/ p \notin Paths(d)
    \/ force_rescan
    \/ f[p].access = "dangling"
    \/ ~(d[IdOfPath(d, p)].last_scanned > f[p].mtime)

\* the skip rule of lines 300-307: timestamps are ISO 8601 strings of one
\* format, whose string order is the order of the instants; when
\* os.path.getmtime raises, the file is processed
NeedsProcessing(d, f, p, force_rescan) ==
    \/ p \notin Paths(d)
    \/ force_rescan
    \/ f[p].access = "dangling"
    \/ ~(d[IdOfPath(d, p)].last_scanned >= f[p].mtime)

\* lines 311 and 381-383: os.path.getsize raises, the except clause counts
\* the file and the walk goes on
ScanErrors(d, f, force_rescan) ==
    {p \in FoundFiles(f) : NeedsProcessing(d, f, p, force_rescan)
                              /\ f[p].access = "dangling"}

ScanNew_AllFound(d, f, force_rescan) == FoundFiles(f)
\* lines 335 and 358: a path not among the existing rows is inserted
ScanNew(d, f, force_rescan) ==
    (FoundFiles(f) \ Paths(d)) \ ScanErrors(d, f, force_rescan)
ScanUpdated(d, f, force_rescan) ==
    {p \in FoundFiles(f) \cap Paths(d) : NeedsProcessing(d, f, p, force_rescan)}
        \ ScanErrors(d, f, force_rescan)
ScanSkipped(d, f, force_rescan) ==
    {p \in FoundFiles(f) \cap Paths(d) : ~NeedsProcessing(d, f, p, force_rescan)}
ScanRemoved_Nothing(d, f) == {}
\* lines 385-390
ScanRemoved(d, f) == Paths(d) \ FoundFiles(f)

\* the force flag made this scan process a file it would have skipped
ForcedWork(d, f, force_rescan) ==
    force_rescan /\ ScanUpdated(d, f, TRUE) # ScanUpdated(d, f, FALSE)

\* the tracks table after scan_library: rows of vanished paths deleted, rows
\* of processed known paths rewritten in place, new paths inserted with fresh
\* ids in the order of the walk
ScanTable(d, f, first, now, force_rescan) ==
    LET new == SortSet(ScanNew(d, f, force_rescan), PathLess)
        upd == ScanUpdated(d, f, force_rescan)
        kept == {id \in DOMAIN d : d[id].file_path \notin ScanRemoved(d, f)}
        fresh == {first + i - 1 : i \in 1..Len(new)}
    IN [id \in kept \cup fresh |->
          IF id \in fresh THEN ScanRow(f, new[id - first + 1], now)
          ELSE IF d[id].file_path \in upd THEN ScanRow(f, d[id].file_path, now)
          ELSE d[id]]

ScanStats(d, f, force_rescan) ==
    [new |-> Cardinality(ScanNew(d, f, force_rescan)),
     updated |-> Cardinality(ScanUpdated(d, f, force_rescan)),
     skipped |-> Cardinality(ScanSkipped(d, f, force_rescan)),
     removed |-> Cardinality(ScanRemoved(d, f)),
     errors |-> Cardinality(ScanErrors(d, f, force_rescan))]

(***************************************************************************)
(* find_duplicates.  A group is [kind, key, tracks]; tracks are the ids of *)
(* the rows the group's SELECT returns.                                    *)
(***************************************************************************)
WithHash(d, h) == {id \in DOMAIN d : d[id].file_hash = h}
WithKey(d, k) ==
    {id \in DOMAIN d : d[id].artist_normalized = k[1] /\ d[id].title_normalized = k[2]}

\* lines 412-419: the hashes of GROUP BY file_hash HAVING cnt > 1
ExactGroupHashes_Three(d) ==
    {h \in {d[id].file_hash : id \in DOMAIN d} :
        h # NoHash /\ Cardinality(WithHash(d, h)) > 2}
ExactGroupHashes(d) ==
    {h \in {d[id].file_hash : id \in DOMAIN d} :
        h # NoHash /\ Cardinality(WithHash(d, h)) > 1}

\* lines 437-444: the keys of GROUP BY artist_normalized, title_normalized
\* HAVING cnt > 1, both parts non-empty
PotentialGroupKeys(d) ==
    {k \in {<<d[id].artist_normalized, d[id].title_normalized>> : id \in DOMAIN d} :
        k[1] # <<>> /\ k[1] # None /\ k[2] # <<>> /\ k[2] # None
        /\ Cardinality(WithKey(d, k)) > 1}

\* lines 457-463: COUNT(DISTINCT file_hash) ... AND file_hash IS NOT NULL
DistinctHashes(d, k) ==
    Cardinality({d[id].file_hash : id \in WithKey(d, k)} \ {NoHash})

\* line 465
ReportPotential_Always(distinct_hashes) == distinct_hashes >= 0
ReportPotential(distinct_hashes) == distinct_hashes > 1 \/ distinct_hashes = 0

\* ORDER BY cnt DESC (lines 418, 443) over the groups of GROUP BY, which
\* SQLite forms by walking idx_file_hash and idx_artist_title (lines
\* 100-108) in key order; its sort by cnt keeps groups of equal count in
\* that order
HashGroupLess(g, h) ==
    \/ Cardinality(g.tracks) > Cardinality(h.tracks)
    \/ Cardinality(g.tracks) = Cardinality(h.tracks) /\ g.key[1] < h.key[1]
KeyGroupLess_TiesReversed(g, h) ==
    \/ Cardinality(g.tracks) > Cardinality(h.tracks)
    \/ /\ Cardinality(g.tracks) = Cardinality(h.tracks)
       /\ \/ StrLess(h.key[1], g.key[1])
          \/ g.key[1] = h.key[1] /\ StrLess(h.key[2], g.key[2])
KeyGroupLess(g, h) ==
    \/ Cardinality(g.tracks) > Cardinality(h.tracks)
    \/ /\ Cardinality(g.tracks) = Cardinality(h.tracks)
       /\ \/ StrLess(g.key[1], h.key[1])
          \/ g.key[1] = h.key[1] /\ StrLess(g.key[2], h.key[2])

find_duplicates(d) ==
    LET exact == {[kind |-> "exact", key |-> h, tracks |-> WithHash(d, h)] :
                     h \in ExactGroupHashes(d)}
        potential == {[kind |-> "potential", key |-> k, tracks |-> WithKey(d, k)] :
                         k \in {k \in PotentialGroupKeys(d) :
                                   ReportPotential(DistinctHashes(d, k))}}
    IN SortSet(exact, HashGroupLess) \o SortSet(potential, KeyGroupLess)

GroupsOfKind(d, kind) ==
    {find_duplicates(d)[i] : i \in {j \in 1..Len(find_duplicates(d)) :
                                       find_duplicates(d)[j].kind = kind}}

(***************************************************************************)
(* music_organizer.py: names.                                              *)
(***************************************************************************)
ARTIST_CORRECTIONS ==
    (<<"g", "r", "e", "a", "t", "f", "u", "l", " ", "d", "e", "a", "d">>
        :> <<"G", "r", "a", "t", "e", "f", "u", "l", " ", "D", "e", "a", "d">>)
    @@ (<<"g", "r", "a", "t", "e", "f", "u", "l", " ", "d", "e", "a", "d">>
        :> <<"G", "r", "a", "t", "e", "f", "u", "l", " ", "D", "e", "a", "d">>)
    @@ (<<"m", "o", "o", "d", "y", " ", "b", "l", "u", "e", "s">>
        :> <<"T", "h", "e", " ", "M", "o", "o", "d", "y", " ", "B", "l", "u", "e", "s">>)
    @@ (<<"v", "e", "l", "v", "e", "t", " ", "u", "n", "d", "e", "r", "g", "r", "o", "u", "n", "d">>
        :> <<"T", "h", "e", " ", "V", "e", "l", "v", "e", "t", " ", "U", "n", "d", "e", "r",
             "g", "r", "o", "u", "n", "d">>)
    @@ (<<"m", "a", "r", "t", "y", " ", "r", "o", "b", "i", "n", "s">>
        :> <<"M", "a", "r", "t", "y", " ", "R", "o", "b", "b", "i", "n", "s">>)

UNSAFE_CHARS_NoQuestionMark == {"<", ">", ":", "\"", "/", "\\", "|", "*"}
UNSAFE_CHARS == {"<", ">", ":", "\"", "/", "\\", "|", "?", "*"}

MaxNameLen == 100

\* name[:100].rsplit(' ', 1)[0]
TruncateAtWord(name) ==
    LET cut == Prefix(name, MaxNameLen)
        i == RFind(cut, " ")
    IN IF i = 0 THEN cut ELSE SubSeq(cut, 1, i - 1)

clean_filename(name) ==
    IF Falsy(name) THEN Unknown
    ELSE LET Safe(c) == c \notin UNSAFE_CHARS
             stripped == StripChars(CollapseSpaces(Filter(name, Safe)), {" ", "."})
             limited == IF Len(stripped) > MaxNameLen THEN TruncateAtWord(stripped)
                        ELSE stripped
         IN IF limited = <<>> THEN Unknown ELSE limited

(***************************************************************************)
(* analyze_library.                                                        *)
(***************************************************************************)
\* SELECT artist, artist_normalized, COUNT(*) FROM tracks GROUP BY artist:
\* one <<artist, artist_normalized, count>> per artist, in artist order; the
\* bare column artist_normalized is read from the last row of the group.
ArtistRows(d) ==
    LET artists == {d[id].artist : id \in DOMAIN d}
        Of(a) == {id \in DOMAIN d : d[id].artist = a}
        Last(a) == CHOOSE id \in Of(a) : \A j \in Of(a) : j <= id
        sorted == SortSet(artists, SqlLess)
    IN [i \in 1..Len(sorted) |->
          <<sorted[i], d[Last(sorted[i])].artist_normalized, Cardinality(Of(sorted[i]))>>]

\* artist_variants[norm]: the <<artist, count>> pairs appended for norm
VariantsOf(artist_rows, norm) ==
    LET Has(r) == r[2] = norm
        rows == SelectSeq(artist_rows, Has)
    IN [i \in 1..Len(rows) |-> <<rows[i][1], rows[i][3]>>]

\* the key of max() in get_preferred_artist_name, and the order of such keys.
\* x[0][0] raises on an empty artist; the libraries modelled hold none.
VariantKey(x) ==
    <<x[1] # <<>> /\ IsUpperChar(x[1][1]),
      x[1] = Title(x[1]) \/ Prefix(x[1], 4) = <<"T", "h", "e", " ">>,
      x[2]>>

BoolLess(a, b) == ~a /\ b

KeyLess(k, l) ==
    \/ BoolLess(k[1], l[1])
    \/ k[1] = l[1] /\ BoolLess(k[2], l[2])
    \/ k[1] = l[1] /\ k[2] = l[2] /\ k[3] < l[3]

\* max(variants, key=...): the first variant no other variant's key exceeds
BestVariant(variants) ==
    LET top == {i \in 1..Len(variants) :
                  \A j \in 1..Len(variants) :
                     ~KeyLess(VariantKey(variants[i]), VariantKey(variants[j]))}
    IN variants[CHOOSE i \in top : \A j \in top : i <= j]

get_preferred_artist_name(artist, artist_rows) ==
    LET normalized == normalize_artist(artist)
    IN IF normalized \in DOMAIN ARTIST_CORRECTIONS THEN ARTIST_CORRECTIONS[normalized]
       ELSE IF VariantsOf(artist_rows, normalized) # <<>>
            THEN BestVariant(VariantsOf(artist_rows, normalized))[1]
            ELSE artist

CountComplete_Strict(track_count, min_tracks) == track_count > min_tracks
\* track_count >= min_tracks (line 143)
CountComplete(track_count, min_tracks) == track_count >= min_tracks

\* album and ('unknown' in album.lower() or album.strip() == ''), as a truth
\* value: a falsy album makes the whole expression falsy (line 144)
IsUnknownAlbum(album) ==
    IF Falsy(album) THEN FALSE
    ELSE Find(Lower(album), Lower(Unknown)) # 0 \/ Strip(album) = <<>>

BucketLess(b, c) == SqlLess(b[1], c[1]) \/ (b[1] = c[1] /\ SqlLess(b[2], c[2]))

\* the albums list of analyze_library: one entry per (artist, album) of the
\* table, ORDER BY artist, album
analyze_library(d, min_tracks) ==
    LET buckets == SortSet({<<d[id].artist, d[id].album>> : id \in DOMAIN d}, BucketLess)
        Ids(b) == {id \in DOMAIN d : d[id].artist = b[1] /\ d[id].album = b[2]}
        Info(b) ==
            LET track_count == Cardinality(Ids(b))
                is_complete == CountComplete(track_count, min_tracks)
                is_unknown == IsUnknownAlbum(b[2])
            IN [original_artist |-> b[1],
                preferred_artist |-> get_preferred_artist_name(b[1], ArtistRows(d)),
                album |-> b[2],
                track_count |-> track_count,
                track_ids |-> Ids(b),
                is_complete |-> is_complete /\ ~is_unknown,
                consolidate_to_mixed |-> ~is_complete \/ is_unknown]
    IN [i \in 1..Len(buckets) |-> Info(buckets[i])]

(***************************************************************************)
(* generate_moves.                                                         *)
(***************************************************************************)
MixedSuffix == <<" ", "-", " ", "M", "i", "x", "e", "d">>

TargetFolder_AlbumAlways(album_info) ==
    clean_filename(album_info.preferred_artist) \o SepDash \o clean_filename(album_info.album)

\* lines 168-172
TargetFolder(album_info) ==
    IF album_info.consolidate_to_mixed
    THEN clean_filename(album_info.preferred_artist) \o MixedSuffix
    ELSE clean_filename(album_info.preferred_artist) \o SepDash
            \o clean_filename(album_info.album)

\* lines 183-189: "<artist> - <title><ext>" in the target folder
TargetPath(album_info, row) ==
    <<TargetFolder(album_info),
      clean_filename(album_info.preferred_artist) \o SepDash
         \o clean_filename(row.title) \o Suffix(row.file_name)>>

MoveNeeded_Always(source, target) == TRUE
\* line 192: is the move needed
MoveNeeded(source, target) == source # target

IntLess(a, b) == a < b

\* the entries of one album, its tracks in id order
AlbumMoves(d, album_info) ==
    LET ids == SortSet(album_info.track_ids, IntLess)
        Entry(id) ==
            [track_id |-> id,
             source |-> d[id].file_path,
             target |-> TargetPath(album_info, d[id]),
             artist |-> album_info.preferred_artist,
             title |-> d[id].title,
             from_album |-> album_info.album,
             to_mixed |-> album_info.consolidate_to_mixed]
        Needed(m) == MoveNeeded(m.source, m.target)
    IN SelectSeq([i \in 1..Len(ids) |-> Entry(ids[i])], Needed)

generate_moves(d, albums) ==
    Concat([i \in 1..Len(albums) |-> AlbumMoves(d, albums[i])])

(***************************************************************************)
(* execute_moves.                                                          *)
(***************************************************************************)
CommitEvery == 50

Digit(n) == Ascii[17 + n]
RECURSIVE Decimal(_)
Decimal(n) == IF n < 10 THEN <<Digit(n)>> ELSE Append(Decimal(n \div 10), Digit(n % 10))   \* str(n)

\* "<stem> (N)<suffix>" beside target
Numbered(target, n) ==
    <<target[1], Stem(target[2]) \o <<" ", "(">> \o Decimal(n) \o <<")">> \o Suffix(target[2])>>

FreeTarget_Overwrite(f, target) == target

\* lines 387-394: the target itself when it is free, else the first numbered
\* name, counting from 1, that is free
FreeTarget(f, target) ==
    IF ~Exists(f, target) THEN target
    ELSE LET n == CHOOSE n \in 1..(Cardinality(DOMAIN f) + 1) :
                     /\ ~Exists(f, Numbered(target, n))
                     /\ \A m \in 1..(n - 1) : Exists(f, Numbered(target, m))
         IN Numbered(target, n)

\* the UPDATE of lines 403-414; file_path is UNIQUE (line 68)
UpdateViolatesUnique(d, move, target) ==
    /\ move.track_id \in DOMAIN d
    /\ \E id \in DOMAIN d : id # move.track_id /\ d[id].file_path = target

Mixed == <<"M", "i", "x", "e", "d">>

UpdateMoved(d, move, target) ==
    IF move.track_id \notin DOMAIN d THEN d
    ELSE [d EXCEPT ![move.track_id] =
            [@ EXCEPT !.file_path = target,
                      !.file_name = target[2],
                      !.artist = move.artist,
                      !.album = IF move.to_mixed THEN Mixed ELSE move.from_album]]

(***************************************************************************)
(* find_duplicates_in_mixed and remove_duplicates.                         *)
(***************************************************************************)
TrashFolder == <<"_", "D", "u", "p", "l", "i", "c", "a", "t", "e", "s", "_",
                 "R", "e", "m", "o", "v", "e", "d">>
MixedMark == <<" ", "-", " ", "M", "i", "x", "e", "d">>

Contains(s, sub) == Find(s, sub) # 0                       \* sub in s

\* lines 231-235: COUNT(*) WHERE artist = ? AND album = ?; NULL equals nothing
AlbumTrackCount(d, artist, album) ==
    IF artist = None \/ album = None THEN 0
    ELSE Cardinality({id \in DOMAIN d : d[id].artist = artist /\ d[id].album = album})

\* lines 237-239
IsInMixed(d, id, min_tracks) ==
    \/ Contains(d[id].file_path[1], MixedMark)
    \/ Contains(d[id].file_path[2], MixedMark)
    \/ Contains(Or(d[id].album, <<>>), Unknown)
    \/ AlbumTrackCount(d, d[id].artist, d[id].album) < min_tracks

TrackKey(d, id) == <<d[id].artist_normalized, d[id].title_normalized>>

find_duplicates_in_mixed_AnyCopy(d, min_tracks) ==
    LET mixed == {id \in DOMAIN d : IsInMixed(d, id, min_tracks)}
        copies(id) == {c \in DOMAIN d \ {id} : TrackKey(d, c) = TrackKey(d, id)}
        dups == {id \in mixed : /\ copies(id) # {}
                                /\ ~Falsy(TrackKey(d, id)[1])
                                /\ ~Falsy(TrackKey(d, id)[2])}
        order == SortSet(dups, IntLess)
    IN [i \in 1..Len(order) |->
          [mixed_track |-> [id |-> order[i], path |-> d[order[i]].file_path],
           album_copies |-> copies(order[i])]]
\* the list find_duplicates_in_mixed returns, in the order of the rows
find_duplicates_in_mixed(d, min_tracks) ==
    LET mixed == {id \in DOMAIN d : IsInMixed(d, id, min_tracks)}
        copies(id) == {c \in DOMAIN d \ mixed : TrackKey(d, c) = TrackKey(d, id)}
        dups == {id \in mixed : /\ copies(id) # {}
                                /\ ~Falsy(TrackKey(d, id)[1])
                                /\ ~Falsy(TrackKey(d, id)[2])}
        order == SortSet(dups, IntLess)
    IN [i \in 1..Len(order) |->
          [mixed_track |-> [id |-> order[i], path |-> d[order[i]].file_path],
           album_copies |-> copies(order[i])]]

\* lines 492-496: the file's own name in the quarantine folder when that is
\* free, else the first numbered name that is free
TrashPath(f, path) == FreeTarget(f, <<TrashFolder, path[2]>>)

DeleteRow_All(d, id) == <<>>
DeleteRow(d, id) == [x \in DOMAIN d \ {id} |-> d[x]]      \* line 501

NoRes == [fn |-> "none", once |-> <<>>, twice |-> <<>>]
Idle == [plan |-> <<>>, i |-> 0, min_tracks |-> 0, success |-> 0, errors |-> 0,
         skipped |-> 0, log |-> <<>>]
NoScan == [n |-> 0]
NoDedup == [dups |-> <<>>, i |-> 0, min_tracks |-> 0, removed |-> 0, errors |-> 0]
NoLookup == [cache |-> <<>>, last |-> [outcome |-> "none"]]

\* scan_library(conn, force_rescan), lines 270-401
scan_library(force_rescan) ==
    /\ pc = "idle"
    /\ clock < MaxClock
    /\ db' = ScanTable(db, fs, nextId, clock, force_rescan)
    /\ committed' = db'
    /\ nextId' = nextId + Cardinality(ScanNew(db, fs, force_rescan))
    /\ lastScan' = [n |-> IF lastScan.n = 0 THEN 1 ELSE 2,
                    forced |-> ForcedWork(db, fs, force_rescan),
                    now |-> clock,
                    stats |-> ScanStats(db, fs, force_rescan),
                    firstNew |-> nextId,
                    lost |-> lost,
                    prev |-> IF lastScan.n = 0 THEN NoScan
                             ELSE [n |-> 1, now |-> lastScan.now, fs |-> lastScan.fs,
                                   count |-> lastScan.count],
                    fs |-> fs,
                    count |-> Cardinality(DOMAIN db')]
    /\ clock' = clock + 1
    /\ lastOp' = "scan"
    /\ lost' = {}
    /\ UNCHANGED <<fs, pc, run, faults, dedup, lookup, inp, res>>

\* get_db_connection, lines 51-56: the organizer exits unless the catalog
\* tool has created the database
DatabaseExists == lastScan.n > 0

\* main(), lines 562-574: analyze_library and generate_moves, then
\* execute_moves starts on the plan (lines 350-368)
reorganize(min_tracks) ==
    /\ pc = "idle"
    /\ DatabaseExists
    /\ clock < MaxClock
    /\ run' = [plan |-> generate_moves(db, analyze_library(db, min_tracks)),
               i |-> 0, min_tracks |-> min_tracks,
               success |-> 0, errors |-> 0, skipped |-> 0, log |-> <<>>]
    /\ pc' = "exec"
    /\ clock' = clock + 1
    /\ lost' = {}
    /\ UNCHANGED <<fs, db, committed, nextId, lastScan, lastOp, faults,
                 dedup, lookup, inp, res>>

\* a record of the audit log: "SKIP" (lines 377), "MOVED" (lines 416-417) or
\* "ERROR" (lines 426-427), with the source path it names
LogRecord(kind, source) == [kind |-> kind, source |-> source]

\* one turn of the loop of execute_moves, lines 370-428; move_fails is
\* shutil.move raising (the file stays where it was)
execute_moves_step(move_fails) ==
    /\ pc = "exec"
    /\ run.i < Len(run.plan)
    /\ LET i == run.i + 1
           move == run.plan[i]
           source == move.source
           target == FreeTarget(fs, move.target)
       IN IF ~Exists(fs, source)
          THEN /\ run' = [run EXCEPT !.i = i, !.skipped = @ + 1,
                                     !.log = Append(@, LogRecord("SKIP", source))]
               /\ UNCHANGED <<fs, db, committed, lost, faults>>
          ELSE IF source = move.target
          THEN /\ run' = [run EXCEPT !.i = i, !.skipped = @ + 1]
               /\ UNCHANGED <<fs, db, committed, lost, faults>>
          ELSE IF move_fails
          THEN /\ faults < MaxFaults
               /\ faults' = faults + 1
               /\ run' = [run EXCEPT !.i = i, !.errors = @ + 1,
                                     !.log = Append(@, LogRecord("ERROR", source))]
               /\ UNCHANGED <<fs, db, committed, lost>>
          ELSE IF UpdateViolatesUnique(db, move, target)
          THEN /\ fs' = MoveFile(fs, source, target)
               /\ run' = [run EXCEPT !.i = i, !.errors = @ + 1,
                                     !.log = Append(@, LogRecord("ERROR", source))]
               /\ UNCHANGED <<db, committed, lost, faults>>
          ELSE /\ fs' = MoveFile(fs, source, target)
               /\ db' = UpdateMoved(db, move, target)
               /\ run' = [run EXCEPT !.i = i, !.success = @ + 1,
                                     !.log = Append(@, LogRecord("MOVED", source))]
               /\ faults' = faults
               /\ IF i % CommitEvery = 0
                  THEN committed' = db' /\ lost' = {}
                  ELSE /\ committed' = committed
                       /\ lost' = lost \cup {[track_id |-> move.track_id,
                                              old |-> source, new |-> target]}
    /\ UNCHANGED <<nextId, clock, pc, lastScan, lastOp, dedup, lookup, inp, res>>

\* after the loop: the final commit (line 430); the sweep of empty
\* directories changes no file
execute_moves_finish ==
    /\ pc = "exec"
    /\ run.i = Len(run.plan)
    /\ committed' = db
    /\ lost' = {}
    /\ pc' = "idle"
    /\ lastOp' = "exec"
    /\ UNCHANGED <<fs, db, nextId, clock, run, lastScan, faults, dedup, lookup, inp, res>>

\* the process terminates inside execute_moves: what was not committed is
\* rolled back, the files stay where they are
crash ==
    /\ pc = "exec"
    /\ db' = committed
    /\ pc' = "idle"
    /\ lastOp' = "crash"
    /\ UNCHANGED <<fs, committed, nextId, clock, run, lastScan, lost, faults,
                 dedup, lookup, inp, res>>

\* main(), lines 553-558: find_duplicates_in_mixed, and on "yes"
\* remove_duplicates starts on a non-empty list
remove_duplicates_start(min_tracks) ==
    /\ pc = "idle"
    /\ DatabaseExists
    /\ clock < MaxClock
    /\ find_duplicates_in_mixed(db, min_tracks) # <<>>
    /\ dedup' = [dups |-> find_duplicates_in_mixed(db, min_tracks), i |-> 0,
                 min_tracks |-> min_tracks, removed |-> 0, errors |-> 0]
    /\ pc' = "dedup"
    /\ clock' = clock + 1
    /\ UNCHANGED <<fs, db, committed, nextId, run, lookup, lastScan, lastOp, lost,
                   faults, inp, res>>

\* one turn of the loop of remove_duplicates, lines 482-507
remove_duplicates_step(move_fails) ==
    /\ pc = "dedup"
    /\ dedup.i < Len(dedup.dups)
    /\ LET mixed == dedup.dups[dedup.i + 1].mixed_track
           path == mixed.path
           trash_path == TrashPath(fs, path)
       IN IF ~Exists(fs, path)
          THEN /\ dedup' = [dedup EXCEPT !.i = @ + 1]
               /\ UNCHANGED <<fs, db, faults>>
          ELSE IF move_fails
          THEN /\ faults < MaxFaults
               /\ faults' = faults + 1
               /\ dedup' = [dedup EXCEPT !.i = @ + 1, !.errors = @ + 1]
               /\ UNCHANGED <<fs, db>>
          ELSE /\ fs' = MoveFile(fs, path, trash_path)
               /\ db' = DeleteRow(db, mixed.id)
               /\ dedup' = [dedup EXCEPT !.i = @ + 1, !.removed = @ + 1]
               /\ faults' = faults
    /\ UNCHANGED <<committed, nextId, clock, pc, run, lookup, lastScan, lastOp, lost,
                   inp, res>>

\* after the loop: the commit of line 509; the sweep of empty directories
\* changes no file
remove_duplicates_finish ==
    /\ pc = "dedup"
    /\ dedup.i = Len(dedup.dups)
    /\ committed' = db
    /\ pc' = "idle"
    /\ lastOp' = "dedup"
    /\ UNCHANGED <<fs, db, nextId, clock, run, dedup, lookup, lastScan, lost, faults,
                   inp, res>>

\* a library of at most MaxFiles files with modification times in mtimes,
\* before the first scan: no database yet
InitLibraryIn(paths, files, mtimes) ==
    /\ \E S \in SUBSET paths :
          /\ Cardinality(S) <= files
          /\ fs \in [S -> InitFiles(mtimes)]
    /\ db = <<>> /\ committed = <<>> /\ nextId = 1 /\ clock = 0
    /\ pc = "idle" /\ run = Idle /\ lastScan = NoScan
    /\ lastOp = "none" /\ lost = {} /\ faults = 0
    /\ dedup = NoDedup /\ lookup = NoLookup
    /\ inp = <<>> /\ res = NoRes

InitLibrary(mtimes) == InitLibraryIn(InitPaths, MaxFiles, mtimes)

\* every file was last modified before the program first runs
Init == InitLibrary({0})

\* files may also carry modification times ahead of the clock
InitScan == InitLibrary(0..MaxMtime)

Next ==
    \/ \E force_rescan \in BOOLEAN : scan_library(force_rescan)
    \/ \E min_tracks \in 1..MaxMinTracks : reorganize(min_tracks)
    \/ \E move_fails \in BOOLEAN : execute_moves_step(move_fails)
    \/ execute_moves_finish
    \/ crash
    \/ \E min_tracks \in 1..MaxMinTracks : remove_duplicates_start(min_tracks)
    \/ \E move_fails \in BOOLEAN : remove_duplicates_step(move_fails)
    \/ remove_duplicates_finish

Spec == Init /\ [][Next]_vars

\* a library that already has a quarantine folder from an earlier
\* remove_duplicates
DedupPaths ==
    {<<<<"A", " ", "-", " ", "X">>, <<"T", ".", "m", "p", "3">>>>,
     <<<<"A">>, <<"T", ".", "m", "p", "3">>>>,
     <<<<"A">>, <<"U", ".", "m", "p", "3">>>>,
     <<TrashFolder, <<"T", ".", "m", "p", "3">>>>}
InitDedup == InitLibraryIn(DedupPaths, MaxFiles + 1, {0})
SpecDedup == InitDedup /\ [][Next]_vars

SpecScan == InitScan /\ [][Next]_vars

\* the environment: a file of the library can no longer be opened, or is a
\* link whose target went away
lose_access(p, access) ==
    /\ pc = "idle"
    /\ faults < MaxFaults
    /\ p \in DOMAIN fs
    /\ fs[p].access = "ok"
    /\ fs' = [fs EXCEPT ![p].access = access]
    /\ faults' = faults + 1
    /\ lastOp' = "env"
    /\ UNCHANGED <<db, committed, nextId, clock, pc, run, lastScan, lost,
                 dedup, lookup, inp, res>>

NextFail ==
    \/ Next
    \/ \E p \in InitPaths, access \in {"unreadable", "dangling"} : lose_access(p, access)

\* the program on a library whose files may fail to be read
SpecFail == Init /\ [][NextFail]_vars

(***************************************************************************)
(* Properties of the catalog and the organizer.                            *)
(***************************************************************************)
\* C1 as stated: when scan_library (not forced) runs twice with no
\* filesystem change between the runs, the second run reports new = 0,
\* updated = 0 and removed = 0 and the track count is the first run's.
C1_ScanIdempotent ==
    (lastOp = "scan" /\ lastScan.n = 2 /\ lastScan.prev.fs = fs /\ ~lastScan.forced)
    => /\ lastScan.stats.new = 0
       /\ lastScan.stats.updated = 0
       /\ lastScan.stats.removed = 0
       /\ lastScan.count = lastScan.prev.count

\* C1 amended: the same, provided no file's modification time is later than
\* the start of the first run.
C1_ScanIdempotentNoFutureMtime ==
    (/\ lastOp = "scan" /\ lastScan.n = 2 /\ lastScan.prev.fs = fs /\ ~lastScan.forced
     /\ \A p \in DOMAIN fs : fs[p].mtime <= lastScan.prev.now)
    => /\ lastScan.stats.new = 0
       /\ lastScan.stats.updated = 0
       /\ lastScan.stats.removed = 0
       /\ lastScan.count = lastScan.prev.count

C1_Witness ==
    /\ lastOp = "scan" /\ lastScan.n = 2 /\ lastScan.prev.fs = fs /\ ~lastScan.forced
    /\ \A p \in DOMAIN fs : fs[p].mtime <= lastScan.prev.now
    /\ lastScan.stats.skipped = MaxFiles
    /\ lastScan.count = MaxFiles

\* C2: tracks sharing a non-null hash are together in exactly one exact
\* group, no track is in two exact groups, and there is no exact group when
\* no two tracks share a hash.
C2_ExactDuplicates ==
    LET exact == GroupsOfKind(db, "exact")
        Shared(i, j) == i # j /\ db[i].file_hash # NoHash /\ db[i].file_hash = db[j].file_hash
    IN /\ \A i, j \in DOMAIN db :
            Shared(i, j) => Cardinality({g \in exact : {i, j} \subseteq g.tracks}) = 1
       /\ \A i \in DOMAIN db : Cardinality({g \in exact : i \in g.tracks}) <= 1
       /\ (~\E i, j \in DOMAIN db : Shared(i, j)) => exact = {}
       /\ \A g \in exact : \A i, j \in g.tracks : db[i].file_hash = db[j].file_hash

C2_Witness ==
    \E i, j \in DOMAIN db :
        /\ i # j /\ db[i].file_path # db[j].file_path
        /\ db[i].file_hash # NoHash /\ db[i].file_hash = db[j].file_hash
        /\ \E g \in GroupsOfKind(db, "exact") : g.tracks = {i, j}

\* C3: two tracks with the same non-empty normalized key whose key group has
\* one single hash are in no potential group; two tracks with the same
\* non-empty normalized key and two distinct hashes are together in one.
SameKey(i, j) ==
    /\ i # j
    /\ db[i].artist_normalized # <<>> /\ db[i].title_normalized # <<>>
    /\ db[i].artist_normalized = db[j].artist_normalized
    /\ db[i].title_normalized = db[j].title_normalized
KeyGroup(i) == WithKey(db, <<db[i].artist_normalized, db[i].title_normalized>>)

C3_PotentialSuppression ==
    LET potential == GroupsOfKind(db, "potential")
    IN \A i, j \in DOMAIN db :
          SameKey(i, j) =>
             /\ (db[i].file_hash # NoHash /\ \A m \in KeyGroup(i) : db[m].file_hash = db[i].file_hash)
                   => ~\E g \in potential : i \in g.tracks \/ j \in g.tracks
             /\ (db[i].file_hash # NoHash /\ db[j].file_hash # NoHash
                 /\ db[i].file_hash # db[j].file_hash)
                   => \E g \in potential : {i, j} \subseteq g.tracks

C3_WitnessSuppressed ==
    \E i, j \in DOMAIN db :
        /\ SameKey(i, j)
        /\ db[i].file_hash # NoHash /\ \A m \in KeyGroup(i) : db[m].file_hash = db[i].file_hash
        /\ GroupsOfKind(db, "potential") = {}
        /\ GroupsOfKind(db, "exact") # {}

C3_WitnessReported ==
    \E i, j \in DOMAIN db :
        /\ SameKey(i, j)
        /\ db[i].file_hash # NoHash /\ db[j].file_hash # NoHash
        /\ db[i].file_hash # db[j].file_hash
        /\ \E g \in GroupsOfKind(db, "potential") : {i, j} \subseteq g.tracks

\* the plan analyze_library + generate_moves give for the catalog as it is
PlanNow(min_tracks) == generate_moves(db, analyze_library(db, min_tracks))

\* C5: after execute_moves has applied a plan with no error (every entry
\* moved), analyze_library + generate_moves on the updated catalog give an
\* empty plan.
C5_ReorganizeIdempotent ==
    (/\ pc = "idle" /\ lastOp = "exec"
     /\ run.errors = 0 /\ run.skipped = 0 /\ run.success = Len(run.plan))
    => PlanNow(run.min_tracks) = <<>>

C7_DistinctTargets ==
    \A i, j \in 1..Len(run.plan) : i # j => run.plan[i].target # run.plan[j].target

\* C8: every entry of a plan of generate_moves has a target different from
\* its source, and a track whose computed target is its current path has no
\* entry in the plan.
InfoOf(min_tracks, id) ==
    LET albums == analyze_library(db, min_tracks)
    IN albums[CHOOSE i \in 1..Len(albums) : id \in albums[i].track_ids]

InPlace(min_tracks, id) == TargetPath(InfoOf(min_tracks, id), db[id]) = db[id].file_path

C8_NoNoOpMoves ==
    /\ \A i \in 1..Len(run.plan) : run.plan[i].source # run.plan[i].target
    /\ (pc = "exec" /\ run.i = 0)
          => \A id \in DOMAIN db :
                InPlace(run.min_tracks, id)
                   => ~\E i \in 1..Len(run.plan) : run.plan[i].track_id = id

C8_Witness ==
    /\ pc = "exec" /\ run.i = 0
    /\ \E id \in DOMAIN db :
          /\ InPlace(run.min_tracks, id)
          /\ ~\E i \in 1..Len(run.plan) : run.plan[i].track_id = id
    /\ run.plan # <<>>

\* C9: a bucket is complete iff its track count reaches the threshold and
\* its album is non-empty and does not contain "unknown" in any case; a
\* bucket with an empty or null album is never complete and is consolidated
\* to "<PreferredArtist> - Mixed".
KnownAlbum(album) == ~Falsy(album) /\ Find(Lower(album), Lower(Unknown)) = 0

C9_CompletenessRule ==
    \A t \in 1..MaxMinTracks :
       \A i \in 1..Len(analyze_library(db, t)) :
          LET info == analyze_library(db, t)[i]
          IN /\ info.is_complete <=> (info.track_count >= t /\ KnownAlbum(info.album))
             /\ Falsy(info.album)
                   => /\ ~info.is_complete
                      /\ TargetFolder(info) = clean_filename(info.preferred_artist) \o MixedSuffix

\* C10: with a known album name, a bucket of exactly t tracks is complete
\* and a bucket of exactly t - 1 tracks is routed to Mixed.
C10_ThresholdBoundary ==
    \A t \in 1..MaxMinTracks :
       \A i \in 1..Len(analyze_library(db, t)) :
          LET info == analyze_library(db, t)[i]
          IN KnownAlbum(info.album) =>
                /\ info.track_count = t
                      => /\ info.is_complete /\ ~info.consolidate_to_mixed
                         /\ TargetFolder(info) = clean_filename(info.preferred_artist)
                               \o SepDash \o clean_filename(info.album)
                /\ info.track_count = t - 1
                      => /\ ~info.is_complete /\ info.consolidate_to_mixed
                         /\ TargetFolder(info) = clean_filename(info.preferred_artist)
                               \o MixedSuffix

C10_Witness ==
    \E t \in 1..MaxMinTracks : \E u \in 1..MaxMinTracks :
       \E i \in 1..Len(analyze_library(db, t)) :
          \E j \in 1..Len(analyze_library(db, u)) :
             LET at == analyze_library(db, t)[i]
                 below == analyze_library(db, u)[j]
             IN /\ KnownAlbum(at.album) /\ at.track_count = t /\ at.is_complete
                /\ KnownAlbum(below.album) /\ below.track_count = u - 1
                /\ below.consolidate_to_mixed

\* the number of files on disk that hold the bytes c
ContentCount(f, c) == Cardinality({p \in DOMAIN f : f[p].content = c})

\* C11: whenever execute_moves moves a file, the destination did not exist
\* just before the move and every other file is left as it was; the
\* destination is the planned target when that is free, else
\* "<stem> (N)<ext>" for the smallest N >= 1 that is free; and every step of
\* execute_moves preserves the contents on disk.
C11_CollisionSafeMove ==
    [][pc = "exec" =>
         /\ \A c \in 1..MaxContent : ContentCount(fs', c) = ContentCount(fs, c)
         /\ fs' # fs =>
               LET move == run.plan[run.i + 1]
               IN \E dst \in DOMAIN fs' \ DOMAIN fs :
                     /\ DOMAIN fs' = (DOMAIN fs \ {move.source}) \cup {dst}
                     /\ fs'[dst] = fs[move.source]
                     /\ \A p \in DOMAIN fs \ {move.source} : fs'[p] = fs[p]
                     /\ IF move.target \notin DOMAIN fs THEN dst = move.target
                        ELSE \E n \in 1..Cardinality(DOMAIN fs) :
                                /\ dst = Numbered(move.target, n)
                                /\ \A m \in 1..(n - 1) :
                                      Numbered(move.target, m) \in DOMAIN fs]_vars

\* a move found its planned target taken and went to "<stem> (1)<ext>"
C11_Witness ==
    /\ pc = "exec" /\ run.i > 0
    /\ \E i \in 1..run.i :
          /\ run.plan[i].target \in DOMAIN fs
          /\ Numbered(run.plan[i].target, 1) \in DOMAIN fs
          /\ run.plan[i].source \notin DOMAIN fs

\* C12: for every duplicate remove_duplicates processes, no file is deleted
\* or overwritten: the file moves to a path of the quarantine folder that did
\* not exist (its own name, else "<stem> (N)<ext>" for the first free N) and
\* its row is deleted with that move; when the file is missing or the move
\* fails, the catalog is left as it was.
C12_QuarantineNotDelete ==
    [][pc = "dedup" /\ dedup' # dedup =>
         LET mixed == dedup.dups[dedup.i + 1].mixed_track
             name == <<TrashFolder, mixed.path[2]>>
         IN /\ \A p \in DOMAIN fs \ {mixed.path} : p \in DOMAIN fs' /\ fs'[p] = fs[p]
            /\ \A id \in DOMAIN db \ {mixed.id} : id \in DOMAIN db' /\ db'[id] = db[id]
            /\ IF fs' = fs THEN db' = db
               ELSE /\ mixed.id \notin DOMAIN db'
                    /\ mixed.path \notin DOMAIN fs'
                    /\ \E dst \in DOMAIN fs' \ DOMAIN fs :
                          /\ DOMAIN fs' = (DOMAIN fs \ {mixed.path}) \cup {dst}
                          /\ fs'[dst] = fs[mixed.path]
                          /\ IF name \notin DOMAIN fs THEN dst = name
                             ELSE \E n \in 1..Cardinality(DOMAIN fs) :
                                     /\ dst = Numbered(name, n)
                                     /\ \A m \in 1..(n - 1) :
                                           Numbered(name, m) \in DOMAIN fs]_vars

\* a duplicate went to the quarantine folder under a numbered name, beside
\* the file that holds its own name there, and its row is gone
C12_Witness ==
    /\ pc = "dedup" /\ dedup.removed > 0
    /\ \E i \in 1..dedup.i :
          LET mixed == dedup.dups[i].mixed_track
          IN /\ mixed.id \notin DOMAIN db
             /\ mixed.path[1] # TrashFolder
             /\ <<TrashFolder, mixed.path[2]>> \in DOMAIN fs
             /\ Numbered(<<TrashFolder, mixed.path[2]>>, 1) \in DOMAIN fs

\* a move into the quarantine folder failed and the row stayed
C12_WitnessFailed ==
    /\ pc = "dedup" /\ dedup.errors > 0
    /\ \E i \in 1..dedup.i :
          LET mixed == dedup.dups[i].mixed_track
          IN mixed.id \in DOMAIN db /\ mixed.path \in DOMAIN fs

\* a step of scan_library: the only operation that starts and ends idle
ScanStep == pc = "idle" /\ pc' = "idle" /\ clock' = clock + 1

RowsOfPath(d, p) == {id \in DOMAIN d : d[id].file_path = p}

\* C13: when reading a file's tags or hashing it fails during scan_library,
\* the file is counted as an error and not as new or updated, and the row
\* stored for its path, if any, is left exactly as it was (no row is made
\* for a path that had none).
C13_ScanFailureTolerance ==
    [][ScanStep =>
         LET failing == {p \in FoundFiles(fs) : fs[p].access # "ok"}
             stats == lastScan'.stats
         IN /\ \A p \in failing :
                  IF p \in Paths(db)
                  THEN /\ p \in Paths(db')
                       /\ db'[IdOfPath(db', p)] = db[IdOfPath(db, p)]
                  ELSE p \notin Paths(db')
            /\ stats.new + stats.updated <= Cardinality(FoundFiles(fs) \ failing)
            /\ stats.errors >= Cardinality(failing \ Paths(db))]_vars

\* C14: when scan_library completes, no row has a path the walk did not
\* find, every audio file the walk found whose processing did not raise has
\* exactly one row, and with zero errors the paths of the catalog are the
\* audio files the walk found.
C14_CatalogMatchesFilesystem ==
    (lastOp = "scan" /\ pc = "idle") =>
       /\ Paths(db) \subseteq FoundFiles(fs)
       /\ \A p \in FoundFiles(fs) :
             /\ Cardinality(RowsOfPath(db, p)) <= 1
             /\ fs[p].access # "dangling" => Cardinality(RowsOfPath(db, p)) = 1
       /\ lastScan.stats.errors = 0 => Paths(db) = FoundFiles(fs)

\* a scan that removed the row of a vanished path, added a row and met a
\* file it could not stat
C14_Witness ==
    /\ lastOp = "scan" /\ pc = "idle"
    /\ lastScan.stats.errors > 0
    /\ lastScan.stats.removed > 0
    /\ lastScan.stats.new > 0

\* execute_moves(conn, moves) called on a list its caller made: one entry
\* for each track, whose target is the track's own path or a path in the
\* folder "Z"
CallerEntry(d, id, target) ==
    [track_id |-> id, source |-> d[id].file_path, target |-> target,
     artist |-> d[id].artist, title |-> d[id].title, from_album |-> d[id].album,
     to_mixed |-> FALSE]

CallerPlans(d) ==
    LET ids == SortSet(DOMAIN d, IntLess)
    IN {[i \in 1..Len(ids) |->
           CallerEntry(d, ids[i],
                       IF stay[ids[i]] THEN d[ids[i]].file_path
                       ELSE <<<<"Z">>, d[ids[i]].file_name>>)] :
          stay \in [DOMAIN d -> BOOLEAN]}

execute_moves_call(moves) ==
    /\ pc = "idle"
    /\ DatabaseExists
    /\ clock < MaxClock
    /\ moves # <<>>
    /\ run' = [plan |-> moves, i |-> 0, min_tracks |-> 1,
               success |-> 0, errors |-> 0, skipped |-> 0, log |-> <<>>]
    /\ pc' = "exec"
    /\ clock' = clock + 1
    /\ lost' = {}
    /\ UNCHANGED <<fs, db, committed, nextId, dedup, lookup, lastScan, lastOp, faults,
                   inp, res>>

NextExec ==
    \/ Next
    \/ \E moves \in CallerPlans(db) : execute_moves_call(moves)

SpecExec == Init /\ [][NextExec]_vars

C20_NullHashStillReported ==
    \A k \in PotentialGroupKeys(db) :
       (\E i, j \in WithKey(db, k) :
           db[i].file_hash # NoHash /\ db[j].file_hash = NoHash)
          => \E g \in GroupsOfKind(db, "potential") : g.key = k

(***************************************************************************)
(* The three-file library of The Beatles: two tracks in one album folder   *)
(* and, in another folder, a file with the bytes of one of the two.  The   *)
(* organizer runs with the default threshold.                              *)
(***************************************************************************)
MIN_ALBUM_TRACKS == 5

TheBeatles == <<"T", "h", "e", " ", "B", "e", "a", "t", "l", "e", "s">>
BeatlesAlbumFolder == TheBeatles \o SepDash \o <<"X">>
BeatlesFolders == {<<"Z">>, TheBeatles \o SepDash \o <<"Y">>, <<"B", "e", "a", "t", "l", "e", "s", " ", "-", " ", "Y">>}
BeatlesTags == {NoTags, [artist |-> TheBeatles, album |-> None, title |-> <<"T">>]}

InitBeatles ==
    /\ \E folder \in BeatlesFolders, name \in InitNames, original \in InitNames :
          \E tags \in [{1, 2, 3} -> BeatlesTags] :
             LET first == <<BeatlesAlbumFolder, <<"T", ".", "m", "p", "3">>>>
                 second == <<BeatlesAlbumFolder, <<"U", ".", "m", "p", "3">>>>
                 copy == <<folder, name>>
                 File(c, t) == [content |-> c, mtime |-> 0, tags |-> t, access |-> "ok"]
             IN fs = [p \in {first, second, copy} |->
                        IF p = first THEN File(1, tags[1])
                        ELSE IF p = second THEN File(2, tags[2])
                        ELSE File(IF original = first[2] THEN 1 ELSE 2, tags[3])]
    /\ db = <<>> /\ committed = <<>> /\ nextId = 1 /\ clock = 0
    /\ pc = "idle" /\ run = Idle /\ lastScan = NoScan
    /\ lastOp = "none" /\ lost = {} /\ faults = 0
    /\ dedup = NoDedup /\ lookup = NoLookup
    /\ inp = <<>> /\ res = NoRes

NextBeatles ==
    \/ \E force_rescan \in BOOLEAN : scan_library(force_rescan)
    \/ reorganize(MIN_ALBUM_TRACKS)
    \/ \E move_fails \in BOOLEAN : execute_moves_step(move_fails)
    \/ execute_moves_finish
    \/ crash

SpecBeatles == InitBeatles /\ [][NextBeatles]_vars

\* the library as first scanned, nothing moved yet
BeatlesScanned == lastOp = "scan" /\ pc = "idle" /\ lastScan.n = 1

AlbumTracks == {id \in DOMAIN db : db[id].file_path[1] = BeatlesAlbumFolder}

\* the entry of the plan for track id goes to folder
PlannedTo(id, folder) ==
    LET plan == PlanNow(MIN_ALBUM_TRACKS)
    IN \E i \in 1..Len(plan) : plan[i].track_id = id /\ plan[i].target[1] = folder

\* find_duplicates reports an exact group with an album track and the copy
CopyReported ==
    \E g \in GroupsOfKind(db, "exact") :
       \E a \in g.tracks \cap AlbumTracks : \E c \in g.tracks \ AlbumTracks :
          fs[db[a].file_path].content = fs[db[c].file_path].content

\* C18 as stated: the planner routes the two tracks of the undersized album
\* to the folder "Beatles - Mixed", and find_duplicates reports an exact
\* group with the original and its byte-identical copy.
C18_BeatlesScenario ==
    BeatlesScanned =>
       /\ Cardinality(AlbumTracks) = 2
       /\ \A id \in AlbumTracks :
             PlannedTo(id, <<"B", "e", "a", "t", "l", "e", "s">> \o MixedSuffix)
       /\ CopyReported

\* C18 amended: the folder is "The Beatles - Mixed".
C18_BeatlesScenarioThe ==
    BeatlesScanned =>
       /\ Cardinality(AlbumTracks) = 2
       /\ \A id \in AlbumTracks : PlannedTo(id, TheBeatles \o MixedSuffix)
       /\ CopyReported

\* the scanned library, whose copy sits in a folder of the artist spelt
\* without the article
C18_Witness ==
    /\ BeatlesScanned
    /\ \E c \in DOMAIN db \ AlbumTracks : db[c].artist = <<"B", "e", "a", "t", "l", "e", "s">>
    /\ \A id \in AlbumTracks : db[id].artist = TheBeatles
    /\ Len(PlanNow(MIN_ALBUM_TRACKS)) = 3

(***************************************************************************)
(* Specification of the pure string functions: an input is drawn, then a   *)
(* function is applied once and to its own result.                         *)
(***************************************************************************)
NormAlphabet == {"T", "h", "e", " ", "."}

Strings(alphabet, n) == UNION {[1..k -> alphabet] : k \in 0..n}

InitNorm ==
    /\ inp \in Strings(NormAlphabet, MaxStrLen)
    /\ res = NoRes
    /\ fs = <<>> /\ db = <<>> /\ committed = <<>> /\ nextId = 1 /\ clock = 0
    /\ pc = "idle" /\ run = Idle /\ lastScan = NoScan
    /\ lastOp = "none" /\ lost = {} /\ faults = 0
    /\ dedup = NoDedup /\ lookup = NoLookup

ApplyNormalizeString ==
    /\ res.fn = "none"
    /\ res' = [fn |-> "normalize_string", once |-> normalize_string(inp),
               twice |-> normalize_string(normalize_string(inp))]
    /\ UNCHANGED <<fs, db, committed, nextId, clock, pc, run, lastScan, lastOp, lost, faults,
                 dedup, lookup, inp>>

ApplyNormalizeArtist ==
    /\ res.fn = "none"
    /\ res' = [fn |-> "normalize_artist", once |-> normalize_artist(inp),
               twice |-> normalize_artist(normalize_artist(inp))]
    /\ UNCHANGED <<fs, db, committed, nextId, clock, pc, run, lastScan, lastOp, lost, faults,
                 dedup, lookup, inp>>

NextNorm == ApplyNormalizeString \/ ApplyNormalizeArtist

SpecNorm == InitNorm /\ [][NextNorm]_vars

\* C4: normalization is idempotent: normalize(normalize(s)) = normalize(s)
\* for every string s, for normalize_string and for normalize_artist.
C4_NormalizeIdempotent ==
    res.fn \in {"normalize_string", "normalize_artist"} => res.twice = res.once

(***************************************************************************)
(* Specification of clean_filename as a function: a name is drawn, None or *)
(* a string of safe and unsafe characters, and the function is applied.    *)
(***************************************************************************)
CleanAlphabet == {"<", "?", "a", " ", "."}

InitClean ==
    /\ inp \in Strings(CleanAlphabet, MaxStrLen) \cup {None}
    /\ res = NoRes
    /\ fs = <<>> /\ db = <<>> /\ committed = <<>> /\ nextId = 1 /\ clock = 0
    /\ pc = "idle" /\ run = Idle /\ lastScan = NoScan
    /\ lastOp = "none" /\ lost = {} /\ faults = 0
    /\ dedup = NoDedup /\ lookup = NoLookup

ApplyCleanFilename ==
    /\ res.fn = "none"
    /\ res' = [fn |-> "clean_filename", once |-> clean_filename(inp),
               twice |-> clean_filename(clean_filename(inp))]
    /\ UNCHANGED <<fs, db, committed, nextId, clock, pc, run, lastScan, lastOp, lost, faults,
                   dedup, lookup, inp>>

NextClean == ApplyCleanFilename

SpecClean == InitClean /\ [][NextClean]_vars

\* C17: the result of clean_filename holds none of the characters
\* < > : " / \ | ? * and is "Unknown" when the input is null, empty or made
\* of unsafe characters only.
C17_FilenameSanitized ==
    res.fn = "clean_filename" =>
       LET unsafe == {"<", ">", ":", "\"", "/", "\\", "|", "?", "*"}
       IN /\ \A i \in 1..Len(res.once) : res.once[i] \notin unsafe
          /\ (inp = None \/ \A i \in 1..Len(inp) : inp[i] \in unsafe)
                => res.once = Unknown

\* a name with unsafe characters among others was cleaned to what is left
C17_Witness ==
    /\ res.fn = "clean_filename"
    /\ inp # None
    /\ \E i \in 1..Len(inp) : inp[i] = "?"
    /\ \E i \in 1..Len(inp) : inp[i] = "<"
    /\ res.once = <<"a", " ", "a">>

\* a name of unsafe characters only became "Unknown"
C17_WitnessAllUnsafe ==
    /\ res.fn = "clean_filename"
    /\ inp = <<"<", "?", "<">>
    /\ res.once = Unknown

(***************************************************************************)
(* Specification of get_file_hash on the bytes of a file.  The window of   *)
(* 65536 bytes is scaled to HashWindow bytes and the limit of 131072 to    *)
(* twice that.  MD5 is taken to be injective: the digest is the byte       *)
(* string fed to the hasher.  One byte of the file is then changed and the *)
(* file hashed again.                                                      *)
(***************************************************************************)
HashWindow == 2
QuickLimit == 2 * HashWindow

Bytes == {"a", "b"}

HashFed_Whole(bytes, quick) == bytes
\* lines 176-187: what hasher.update is given
HashFed(bytes, quick) ==
    IF quick /\ Len(bytes) > QuickLimit
    THEN SubSeq(bytes, 1, HashWindow)
            \o SubSeq(bytes, Len(bytes) - HashWindow + 1, Len(bytes))
            \o Decimal(Len(bytes))
    ELSE bytes

\* the file with its byte at pos changed
ChangeByte(bytes, pos) ==
    [bytes EXCEPT ![pos] = CHOOSE b \in Bytes : b # bytes[pos]]

InitHash ==
    /\ \E n \in 1..MaxBytes : \E bytes \in [1..n -> Bytes] : \E pos \in 1..n :
          inp = [bytes |-> bytes, pos |-> pos]
    /\ res = NoRes
    /\ fs = <<>> /\ db = <<>> /\ committed = <<>> /\ nextId = 1 /\ clock = 0
    /\ pc = "idle" /\ run = Idle /\ lastScan = NoScan
    /\ lastOp = "none" /\ lost = {} /\ faults = 0
    /\ dedup = NoDedup /\ lookup = NoLookup

\* get_file_hash(file_path) with the default quick=True, on the file and on
\* the changed file
ApplyGetFileHash ==
    /\ res.fn = "none"
    /\ res' = [fn |-> "get_file_hash", once |-> HashFed(inp.bytes, TRUE),
               twice |-> HashFed(ChangeByte(inp.bytes, inp.pos), TRUE)]
    /\ UNCHANGED <<fs, db, committed, nextId, clock, pc, run, lastScan, lastOp, lost, faults,
                   dedup, lookup, inp>>

NextHash == ApplyGetFileHash

SpecHash == InitHash /\ [][NextHash]_vars

\* C19: for a file above the limit the digest changes with a byte of the
\* first or of the last window and does not change with a byte strictly
\* between them; for a file of at most the limit it changes with any byte;
\* the digest is a function of the bytes alone.
C19_SampledHash ==
    res.fn = "get_file_hash" =>
       LET size == Len(inp.bytes)
           sampled == inp.pos <= HashWindow \/ inp.pos > size - HashWindow
       IN IF size > 2 * HashWindow
          THEN (sampled => res.twice # res.once) /\ (~sampled => res.twice = res.once)
          ELSE res.twice # res.once

\* a byte strictly inside a large file was changed and the digest stayed
C19_Witness ==
    /\ res.fn = "get_file_hash"
    /\ Len(inp.bytes) > 2 * HashWindow
    /\ inp.pos > HashWindow /\ inp.pos <= Len(inp.bytes) - HashWindow
    /\ res.twice = res.once

(***************************************************************************)
(* music_lookup.py: search_musicbrainz_album and its cache file.  Each     *)
(* HTTP request ends in a transport error, in an answer without releases,  *)
(* or in an answer whose first release is one of Releases.                 *)
(***************************************************************************)
\* no file, no database, no operation running
AtRest ==
    /\ fs = <<>> /\ db = <<>> /\ committed = <<>> /\ nextId = 1 /\ clock = 0
    /\ pc = "idle" /\ run = Idle /\ dedup = NoDedup /\ lastScan = NoScan
    /\ lastOp = "none" /\ lost = {} /\ faults = 0

catalogVars ==
    <<fs, db, committed, nextId, clock, pc, run, dedup, lastScan, lastOp, lost, faults>>

LookupArtists == {<<"a">>, <<"b">>}
LookupAlbums == {<<"x">>, <<"y">>}
Releases == {"r1", "r2"}

cache_key(artist, album) == artist \o <<"|", "|", "|">> \o album      \* line 123

\* lines 180-184: what is returned and cached for a release, its
\* release_id, release_title and tracks, all three fixed by the release
ReleaseResult(release) == <<release, release, release>>

CachePut(cache, key, value) ==
    [k \in DOMAIN cache \cup {key} |-> IF k = key THEN value ELSE cache[k]]

CacheOnError_Poison(cache, key) == CachePut(cache, key, None)
\* lines 190-192: a RequestException returns None and writes nothing
CacheOnError(cache, key) == cache

LookupDone(key, outcome, value, calls) ==
    [key |-> key, outcome |-> outcome, value |-> value, calls |-> calls]

\* search_musicbrainz_album(artist, album), lines 120-192: the cache file and
\* the result it leaves; first, broader and details are the answers to its
\* up to three requests
Search(cache, artist, album, first, broader, details) ==
    LET key == cache_key(artist, album)
        searches == IF first = "none" THEN 2 ELSE 1
        found == IF first = "none" THEN broader ELSE first
    IN IF key \in DOMAIN cache
       THEN [cache |-> cache, last |-> LookupDone(key, "cached", cache[key], 0)]
       ELSE IF first = "error"
       THEN [cache |-> CacheOnError(cache, key),
             last |-> LookupDone(key, "error", None, 1)]
       ELSE IF found = "error"
       THEN [cache |-> CacheOnError(cache, key),
             last |-> LookupDone(key, "error", None, searches)]
       ELSE IF found = "none"
       THEN [cache |-> CachePut(cache, key, None),
             last |-> LookupDone(key, "notfound", None, searches)]
       ELSE IF details = "error"
       THEN [cache |-> CacheOnError(cache, key),
             last |-> LookupDone(key, "error", None, searches + 1)]
       ELSE [cache |-> CachePut(cache, key, ReleaseResult(found)),
             last |-> LookupDone(key, "found", ReleaseResult(found), searches + 1)]

search_musicbrainz_album(artist, album, first, broader, details) ==
    /\ lookup' = Search(lookup.cache, artist, album, first, broader, details)
    /\ UNCHANGED <<catalogVars, inp, res>>

InitLookup == AtRest /\ lookup = NoLookup /\ inp = <<>> /\ res = NoRes

NextLookup ==
    \E artist \in LookupArtists, album \in LookupAlbums :
       \E first \in {"error", "none"} \cup Releases :
          \E broader \in {"error", "none"} \cup Releases :
             \E details \in {"error", "ok"} :
                search_musicbrainz_album(artist, album, first, broader, details)

SpecLookup == InitLookup /\ [][NextLookup]_vars

\* C15: a lookup that ends in a transport error leaves the cache as it was;
\* one that ends in a confirmed not-found or in a release writes its result
\* under the key and nothing else; and a lookup of a key the cache holds
\* (a not-found entry too) returns the cached value without any request.
C15_CacheIntegrity ==
    [][LET before == lookup.cache
           after == lookup'.cache
           last == lookup'.last
       IN /\ last.key \in DOMAIN before =>
                /\ last.outcome = "cached" /\ last.calls = 0
                /\ last.value = before[last.key]
                /\ after = before
          /\ last.outcome = "error" => after = before
          /\ last.outcome \in {"found", "notfound"} =>
                /\ last.calls > 0
                /\ DOMAIN after = DOMAIN before \cup {last.key}
                /\ after[last.key] = last.value
                /\ \A k \in DOMAIN before : after[k] = before[k]]_vars

\* a not-found entry answered a later lookup, and a lookup of another key
\* ended in a transport error and left no entry
C15_Witness ==
    /\ lookup.last.outcome = "cached"
    /\ lookup.last.value = None
    /\ \E k \in DOMAIN lookup.cache : lookup.cache[k] # None
    /\ DOMAIN lookup.cache # {cache_key(artist, album) : artist \in LookupArtists,
                                                          album \in LookupAlbums}

(***************************************************************************)
(* music_lookup.py: find_generic_tracks, lookup_tracks and apply_titles.   *)
(* The tags of the model carry no track number, so the track_number column *)
(* is NULL and the number of a track is read from its title.               *)
(***************************************************************************)
TrackWord == <<"T", "r", "a", "c", "k">>

\* lines 93-94: title LIKE 'Track %' OR title LIKE 'Track%'; LIKE ignores the
\* case of ASCII letters
GenericTitle(title) ==
    title # None /\ Prefix(Lower(title), Len(TrackWord)) = Lower(TrackWord)

RECURSIVE ToInt(_)
ToInt(digits) ==                                                   \* int(...)
    IF digits = <<>> THEN 0
    ELSE 10 * ToInt(SubSeq(digits, 1, Len(digits) - 1)) + (Code(digits[Len(digits)]) - 48)

\* lines 103-106: re.search(r'Track\s*(\d+)', title), 0 when there is no
\* match (a track number of None and one of 0 are treated alike, line 230)
TrackNumberIn(title) ==
    LET After(i) == CHOOSE j \in (i + 5)..(Len(title) + 1) :
                       /\ \A k \in (i + 5)..(j - 1) : IsSpace(title[k])
                       /\ j = Len(title) + 1 \/ ~IsSpace(title[j])
        Matches(i) == /\ SubSeq(title, i, i + 4) = TrackWord
                      /\ After(i) <= Len(title)
                      /\ IsDigitChar(title[After(i)])
        starts == {i \in 1..(Len(title) - 4) : Matches(i)}
    IN IF starts = {} THEN 0
       ELSE LET i == CHOOSE i \in starts : \A j \in starts : i <= j
                from == After(i)
                to == CHOOSE e \in from..Len(title) :
                         /\ \A k \in from..e : IsDigitChar(title[k])
                         /\ e = Len(title) \/ ~IsDigitChar(title[e + 1])
            IN ToInt(SubSeq(title, from, to))

\* ORDER BY artist, album, track_number; rows that tie come in id order
GenericLess(d, a, b) ==
    \/ SqlLess(d[a].artist, d[b].artist)
    \/ d[a].artist = d[b].artist /\ SqlLess(d[a].album, d[b].album)
    \/ d[a].artist = d[b].artist /\ d[a].album = d[b].album /\ a < b

find_generic_tracks(d) ==
    LET Less(a, b) == GenericLess(d, a, b)
    IN SortSet({id \in DOMAIN d : GenericTitle(d[id].title)}, Less)

\* the track listing of a release: position -> title
ReleaseTracks(release) ==
    IF release = "r1" THEN (1 :> <<"N">>)
    ELSE (1 :> <<"N">> @@ 2 :> <<"M", "?">>)

\* line 216: unidentifiable artists are skipped
Unidentifiable(artist) ==
    \/ Contains(Lower(artist), Lower(Unknown))
    \/ Contains(Lower(artist), <<"n", "o", "a", "r", "t", "i", "s", "t">>)

\* lines 226-237: the tracks of one album that the release has a title for
AlbumMatches(d, tracks, artist, album, mb_data) ==
    LET listing == ReleaseTracks(mb_data[1])
        Hit(id) == /\ d[id].artist = artist /\ d[id].album = album
                   /\ TrackNumberIn(d[id].title) \in DOMAIN listing
        Match(id) == [id |-> id, artist |-> artist,
                      new_title |-> listing[TrackNumberIn(d[id].title)],
                      file_path |-> d[id].file_path]
        hits == SelectSeq(tracks, Hit)
    IN [i \in 1..Len(hits) |-> Match(hits[i])]

\* lines 204-209: the albums of the generic tracks, in the order they are
\* first met
AlbumsOf(d, tracks) ==
    LET First(i) == \A j \in 1..(i - 1) :
                       <<d[tracks[j]].artist, d[tracks[j]].album>>
                          # <<d[tracks[i]].artist, d[tracks[i]].album>>
        firsts == {i \in 1..Len(tracks) : First(i)}
        order == SortSet(firsts, IntLess)
    IN [k \in 1..Len(order) |->
           <<d[tracks[order[k]]].artist, d[tracks[order[k]]].album>>]

\* lines 213-245: one search for each album; answers[n] is what the n-th
\* search is answered
RECURSIVE LookupFold(_, _, _, _, _)
LookupFold(d, tracks, albums, answers, st) ==
    IF albums = <<>> THEN st
    ELSE LET artist == albums[1][1]
             album == albums[1][2]
             n == st.searched + 1
             found == Search(st.cache, artist, album, answers[n], answers[n], "ok")
             mb_data == found.last.value
             next == IF Unidentifiable(artist) THEN st
                     ELSE [cache |-> found.cache, last |-> found.last, searched |-> n,
                           matches |-> IF mb_data = None THEN st.matches
                                       ELSE st.matches \o
                                            AlbumMatches(d, tracks, artist, album, mb_data)]
         IN LookupFold(d, tracks, Tail(albums), answers, next)

lookup_tracks(d, look, answers) ==
    LET tracks == find_generic_tracks(d)
    IN LookupFold(d, tracks, AlbumsOf(d, tracks), answers,
                  [cache |-> look.cache, last |-> look.last, searched |-> 0,
                   matches |-> <<>>])

\* audio.save() of lines 281-284 rewrites the file: new bytes, new
\* modification time, the title tag set
Retagged(file, new_title, now) ==
    [file EXCEPT !.content = @ + MaxContent, !.mtime = now,
                 !.tags = [@ EXCEPT !.title = new_title]]

\* one turn of the loop of apply_titles, lines 267-307, on st = [fs, db]
ApplyMatch(st, match, now) ==
    LET file_path == match.file_path
        exists == Exists(st.fs, file_path)
        Safe(c) == c \notin UNSAFE_CHARS
        new_filename == Filter(match.artist \o SepDash \o match.new_title
                                  \o Suffix(file_path[2]), Safe)
        new_path == <<file_path[1], new_filename>>
        tagged == IF exists /\ st.fs[file_path].tags # NoTags
                  THEN [st.fs EXCEPT ![file_path] = Retagged(@, match.new_title, now)]
                  ELSE st.fs
    IN IF exists /\ st.fs[file_path].access # "ok" THEN st
       ELSE IF exists /\ ~Exists(tagged, new_path)
       THEN [fs |-> MoveFile(tagged, file_path, new_path),
             db |-> [st.db EXCEPT ![match.id] =
                        [@ EXCEPT !.title = match.new_title,
                                  !.file_path = new_path,
                                  !.file_name = new_filename]]]
       ELSE [fs |-> tagged, db |-> st.db]

RECURSIVE ApplyAll(_, _, _)
ApplyAll(st, matches, now) ==
    IF matches = <<>> THEN st
    ELSE ApplyAll(ApplyMatch(st, matches[1], now), Tail(matches), now)

\* main(), lines 369-381: --lookup (execute FALSE) and --apply answered
\* "yes" (execute TRUE): lookup_tracks, then apply_titles on its matches
apply_titles(answers, execute) ==
    /\ pc = "idle"
    /\ DatabaseExists
    /\ clock < MaxClock
    /\ LET looked == lookup_tracks(db, lookup, answers)
           applied == IF execute
                      THEN ApplyAll([fs |-> fs, db |-> db], looked.matches, clock)
                      ELSE [fs |-> fs, db |-> db]
       IN /\ lookup' = [cache |-> looked.cache, last |-> looked.last]
          /\ fs' = applied.fs
          /\ db' = applied.db
          /\ committed' = IF execute /\ looked.matches # <<>> THEN applied.db
                          ELSE committed
    /\ clock' = clock + 1
    /\ lastOp' = "titles"
    /\ UNCHANGED <<nextId, pc, run, dedup, lastScan, lost, faults, inp, res>>

\* a library with tracks named "Track 1" and a misspelt artist
TitlesPaths ==
    {<<"A", " ", "-", " ", "X">>, <<"G", "r", "e", "a", "t", "f", "u", "l", " ", "D", "e", "a", "d", " ", "-", " ", "X">>} \X {<<"T", "r", "a", "c", "k", " ", "1", ".", "m", "p", "3">>, <<"T", ".", "m", "p", "3">>}

InitTitles == InitLibraryIn(TitlesPaths, MaxFiles, {0})

NextTitles ==
    \/ Next
    \/ \E answers \in [1..MaxFiles -> {"error", "none"} \cup Releases] :
          \E execute \in BOOLEAN : apply_titles(answers, execute)

SpecTitles == InitTitles /\ [][NextTitles]_vars

\* C21: in every state of the catalog, each row's artist_normalized is the
\* normalized form of the artist stored in the row and its title_normalized
\* the normalized form of the title stored in the row.
C21_NormalizedDerived ==
    \A id \in DOMAIN db :
       /\ db[id].artist_normalized = normalize_string(db[id].artist)
       /\ db[id].title_normalized = normalize_string(db[id].title)

(***************************************************************************)
(* A library whose files the user may delete between two runs of the       *)
(* program: the catalog then holds rows whose file is gone until the next  *)
(* scan removes them (music_catalog.py lines 385-390).                     *)
(***************************************************************************)
StalePaths ==
    {<<<<"A", " ", "-", " ", "X">>, <<"A", " ", "-", " ", "T", ".", "m", "p", "3">>>>, <<<<"A", " ", "-", " ", "X">>, <<"T", ".", "m", "p", "3">>>>, <<<<"A">>, <<"T", ".", "m", "p", "3">>>>}

\* a file is deleted outside the program
delete_file(p) ==
    /\ pc = "idle"
    /\ faults < MaxFaults
    /\ p \in DOMAIN fs
    /\ fs' = [q \in DOMAIN fs \ {p} |-> fs[q]]
    /\ faults' = faults + 1
    /\ lastOp' = "env"
    /\ UNCHANGED <<db, committed, nextId, clock, pc, run, lastScan, lost,
                   dedup, lookup, inp, res>>

InitStale == InitLibraryIn(StalePaths, MaxFiles, {0})

NextStale ==
    \/ Next
    \/ \E p \in StalePaths : delete_file(p)

SpecStale == InitStale /\ [][NextStale]_vars

\* C22: when execute_moves has returned, every entry it logged as MOVED has
\* a catalog row that points at the file's new location (a file that exists,
\* in the planned folder, file_name the name in file_path), and every entry
\* it logged as ERROR left its file at the source.
C22_RowsFollowMoves ==
    (pc = "idle" /\ lastOp = "exec") =>
       \A k \in 1..Len(run.log) :
          LET rec == run.log[k]
              entries == {i \in 1..Len(run.plan) : run.plan[i].source = rec.source}
          IN /\ rec.kind = "ERROR" => Exists(fs, rec.source)
             /\ rec.kind = "MOVED" =>
                   \A i \in entries :
                      LET id == run.plan[i].track_id
                      IN /\ id \in DOMAIN db
                         /\ db[id].file_path[1] = run.plan[i].target[1]
                         /\ db[id].file_name = db[id].file_path[2]
                         /\ Exists(fs, db[id].file_path)

\* the classification C23 states: the marker in the path, an album that is
\* empty or contains "unknown" in any letter case, or fewer than min_tracks
\* tracks with the row's artist and album
StatedMixed(d, id, min_tracks) ==
    \/ Contains(d[id].file_path[1], MixedMark)
    \/ Contains(d[id].file_path[2], MixedMark)
    \/ Falsy(d[id].album)
    \/ Contains(Lower(d[id].album), Lower(Unknown))
    \/ AlbumTrackCount(d, d[id].artist, d[id].album) < min_tracks

StatedRemovable(d, min_tracks) ==
    {id \in DOMAIN d :
        /\ StatedMixed(d, id, min_tracks)
        /\ ~Falsy(TrackKey(d, id)[1])
        /\ ~Falsy(TrackKey(d, id)[2])
        /\ \E c \in DOMAIN d : /\ ~StatedMixed(d, c, min_tracks)
                               /\ TrackKey(d, c) = TrackKey(d, id)}

\* C23: the tracks find_duplicates_in_mixed reports are exactly the tracks
\* that are Mixed (marker in the path, album empty or unknown in any letter
\* case, or an album below the threshold) and whose normalized key, both
\* parts non-empty, is the key of some track that is not Mixed.
C23_MixedClassification ==
    (pc = "dedup" /\ dedup.i = 0) =>
       {dedup.dups[k].mixed_track.id : k \in 1..Len(dedup.dups)}
          = StatedRemovable(db, dedup.min_tracks)

(***************************************************************************)
(* find_duplicates on a library large enough for several groups of one     *)
(* kind, of equal and of different sizes.                                  *)
(***************************************************************************)
ReportPaths ==
    {<<<<"A">>, <<"T", ".", "m", "p", "3">>>>, <<<<"A">>, <<"U", ".", "m", "p", "3">>>>,
     <<<<"A", " ", "-", " ", "X">>, <<"T", ".", "m", "p", "3">>>>, <<<<"A", " ", "-", " ", "X">>, <<"U", ".", "m", "p", "3">>>>,
     <<<<"B">>, <<"T", ".", "m", "p", "3">>>>}

\* main() --duplicates: find_duplicates on the catalog, its result kept
find_duplicates_call ==
    /\ pc = "idle"
    /\ DatabaseExists
    /\ res' = [fn |-> "find_duplicates", once |-> find_duplicates(db), twice |-> <<>>]
    /\ lastOp' = "report"
    /\ UNCHANGED <<fs, db, committed, nextId, clock, pc, run, dedup, lookup, lastScan,
                   lost, faults, inp>>

InitReport == InitLibraryIn(ReportPaths, MaxFiles + 3, {0})

NextReport ==
    \/ \E force_rescan \in BOOLEAN : scan_library(force_rescan)
    \/ find_duplicates_call

SpecReport == InitReport /\ [][NextReport]_vars

\* the grouping key of g comes before that of h: the hash, or the pair of
\* normalized artist and normalized title
KeyBefore(g, h) ==
    IF g.kind = "exact" THEN g.key[1] < h.key[1]
    ELSE \/ StrLess(g.key[1], h.key[1])
         \/ g.key[1] = h.key[1] /\ StrLess(g.key[2], h.key[2])

C25_WitnessSizes ==
    /\ res.fn = "find_duplicates"
    /\ \E i, j \in 1..Len(res.once) :
          /\ i < j /\ res.once[i].kind = res.once[j].kind
          /\ Cardinality(res.once[i].tracks) > Cardinality(res.once[j].tracks)

(***************************************************************************)
(* execute_moves on a plan longer than the commit interval: a folder "A"   *)
(* of CommitEvery + 2 untagged tracks, all of which the plan moves to      *)
(* "A - Mixed".                                                            *)
(***************************************************************************)
LongPlan == CommitEvery + 2

LongPaths ==
    {<<<<"A">>, <<"T">> \o Decimal(n) \o <<".", "m", "p", "3">>>> : n \in 1..LongPlan}

\* the library before the first scan; the clock leaves room for one scan
\* and one reorganization
InitLong ==
    /\ fs = [p \in LongPaths |->
                [content |-> 1, mtime |-> 0, tags |-> NoTags, access |-> "ok"]]
    /\ db = <<>> /\ committed = <<>> /\ nextId = 1 /\ clock = MaxClock - 2
    /\ pc = "idle" /\ run = Idle /\ lastScan = NoScan
    /\ lastOp = "none" /\ lost = {} /\ faults = 0
    /\ dedup = NoDedup /\ lookup = NoLookup
    /\ inp = <<>> /\ res = NoRes

NextLong ==
    \/ \E force_rescan \in BOOLEAN : scan_library(force_rescan)
    \/ \E min_tracks \in 1..MaxMinTracks : reorganize(min_tracks)
    \/ \E move_fails \in BOOLEAN : execute_moves_step(move_fails)
    \/ execute_moves_finish
    \/ crash

SpecLong == InitLong /\ [][NextLong]_vars

\* C24: inside execute_moves the store has been committed whenever the
\* number of plan entries processed is a multiple of 50, whatever the
\* outcome of the last one, and never more than 50 entries' updates are
\* applied but uncommitted, a crash included.
C24_CheckpointCommits ==
    /\ (pc = "exec" /\ run.i > 0 /\ run.i % CommitEvery = 0) => committed = db
    /\ Cardinality(lost) <= CommitEvery

(***************************************************************************)
(* clean_filename on names around the length limit: a short beginning, a   *)
(* long run of one letter, a short end.                                    *)
(***************************************************************************)
LongAlphabet == {"a", " ", ".", "?"}

Fill == [i \in 1..(MaxNameLen - MaxStrLen \div 2) |-> "a"]

LongNames ==
    {head \o Fill \o tail : head, tail \in Strings(LongAlphabet, MaxStrLen \div 2)}

InitTrunc ==
    /\ inp \in LongNames
    /\ res = NoRes
    /\ fs = <<>> /\ db = <<>> /\ committed = <<>> /\ nextId = 1 /\ clock = 0
    /\ pc = "idle" /\ run = Idle /\ lastScan = NoScan
    /\ lastOp = "none" /\ lost = {} /\ faults = 0
    /\ dedup = NoDedup /\ lookup = NoLookup

SpecTrunc == InitTrunc /\ [][NextClean]_vars

\* the name before its length is limited: unsafe characters deleted, runs
\* of whitespace made one space, spaces and periods taken off both ends
BeforeLimit(name) ==
    LET Safe(c) == c \notin {"<", ">", ":", "\"", "/", "\\", "|", "?", "*"}
    IN StripChars(CollapseSpaces(Filter(name, Safe)), {" ", "."})

\* C26: the result of clean_filename has at most 100 characters, begins and
\* ends with neither whitespace nor a period, and when the name was too long
\* it is the name up to the end of one of its words: the character after
\* the cut is a space.
C26_TruncatedAtWord ==
    res.fn = "clean_filename" =>
       LET name == BeforeLimit(inp)
           result == res.once
       IN /\ Len(result) <= 100
          /\ result # <<>>
          /\ result[1] \notin {" ", "."}
          /\ result[Len(result)] \notin {" ", "."}
          /\ Len(name) > 100 =>
                \E k \in 1..100 : result = SubSeq(name, 1, k) /\ name[k + 1] = " "

\* the non-empty normalized (artist, title) keys present in a catalog
NonEmptyKeys(d) ==
    {TrackKey(d, id) : id \in {x \in DOMAIN d : /\ ~Falsy(TrackKey(d, x)[1])
                                                /\ ~Falsy(TrackKey(d, x)[2])}}

\* the rows deleted by a step
Deleted == DOMAIN db \ DOMAIN db'

\* C27: in every step of a remove_duplicates run, each deleted row has a
\* row that was not Mixed in the catalog the run started on (the committed
\* one), with the same key, both parts non-empty, and this row and its file
\* are left as they were; no row but the deleted one changes, and no
\* non-empty key leaves the catalog.
C27_LastCopyKept ==
    [][pc = "dedup" =>
          /\ \A id \in Deleted :
                \E c \in DOMAIN db' :
                   /\ c \in DOMAIN committed
                   /\ ~IsInMixed(committed, c, dedup.min_tracks)
                   /\ TrackKey(committed, c) = TrackKey(db, id)
                   /\ ~Falsy(TrackKey(db, id)[1]) /\ ~Falsy(TrackKey(db, id)[2])
                   /\ db'[c] = db[c] /\ db[c] = committed[c]
                   /\ db[c].file_path \in DOMAIN fs =>
                         /\ db[c].file_path \in DOMAIN fs'
                         /\ fs'[db[c].file_path] = fs[db[c].file_path]
          /\ \A c \in DOMAIN db' : c \in DOMAIN db /\ db'[c] = db[c]
          /\ NonEmptyKeys(db) \subseteq NonEmptyKeys(db')]_vars

\* a run that follows another run has deleted a row
C27_Witness ==
    /\ pc = "dedup"
    /\ lastOp = "dedup"
    /\ dedup.removed > 0
    /\ DOMAIN db # DOMAIN committed

\* C28: the catalog holds no row for a file in the quarantine folder: a
\* scan that follows remove_duplicates inserts no row for a file that was
\* quarantined (the libraries of Spec start with an empty quarantine).
C28_QuarantineStaysOut ==
    \A id \in DOMAIN db : db[id].file_path[1] # TrashFolder

====
